---- MODULE Spec2Model ----
(***************************************************************************)
(* Model of src/app.py, the Streamlit analyser of a Lucca NDF "Full.json"  *)
(* export: pydantic parsing with defaults, the nature lookup, the three    *)
(* flattened views, the two audits, and the session handling of main().    *)
(*                                                                         *)
(* Conventions.                                                            *)
(*  - Python None is the string None where a string may stand, and the     *)
(*    empty sequence << >> where an Optional[int]/Optional[float] stands   *)
(*    (<<v>> is the value v).                                              *)
(*  - A Python dict is a function; the empty dict is << >>.                *)
(*  - A function of the source that may raise returns Ok(v) or Raise(e),   *)
(*    e the name of the exception class.                                   *)
(*  - TLA+ strings are ASCII: the literals of the source are written       *)
(*    without their accents ("Indemnite", "non defini", ...), and # stands *)
(*    for a character that latin-1 cannot encode ("# Inconnu" is the       *)
(*    unknown-nature sentinel, whose first character is an emoji).         *)
(*  - chartsOfAccounts and the accounting tab are left out: no view or     *)
(*    audit modelled here reads them.                                      *)
(***************************************************************************)
EXTENDS Integers, Sequences, FiniteSets, TLC

None == "<None>"
Missing == "<missing>"   \* a key that the JSON object does not hold

Ok(v) == [exc |-> None, val |-> v]
Raise(e) == [exc |-> e]
Raised(r) == r.exc # None

-----------------------------------------------------------------------------
(* Python helpers *)

DictGet(d, k, default) == IF k \in DOMAIN d THEN d[k] ELSE default

\* truth value of an Optional[str]: None and "" are falsy
Truthy(s) == s # None /\ s # ""

Digit(d) ==
  CASE d = 0 -> "0" [] d = 1 -> "1" [] d = 2 -> "2" [] d = 3 -> "3" [] d = 4 -> "4"
    [] d = 5 -> "5" [] d = 6 -> "6" [] d = 7 -> "7" [] d = 8 -> "8" [] d = 9 -> "9"

RECURSIVE Str(_)
\* str(n) of a non-negative int, as the f-strings format it
Str(n) == IF n < 10 THEN Digit(n) ELSE Str(n \div 10) \o Digit(n % 10)

RECURSIVE Concat(_)
\* the concatenation of a sequence of sequences
Concat(ss) == IF ss = << >> THEN << >> ELSE Head(ss) \o Concat(Tail(ss))

RECURSIVE Join(_, _)
\* sep.join(strs)
Join(sep, strs) ==
  IF strs = << >> THEN ""
  ELSE IF Len(strs) = 1 THEN strs[1]
  ELSE strs[1] \o sep \o Join(sep, Tail(strs))

\* filter(None, names): drops the falsy items
FilterNone(names) == SelectSeq(names, Truthy)

\* str.capitalize() on the cap kinds of the model's documents
Capitalize(s) ==
  CASE s = "absolute" -> "Absolute"
    [] s = "PERCENTAGE" -> "Percentage"
    [] OTHER -> s

PERIOD_TRANSLATION ==
  ("Day" :> "par Jour") @@ ("None" :> "par Depense") @@ ("Month" :> "par Mois")
    @@ ("Year" :> "par An")

FR_FR == "fr-FR"

-----------------------------------------------------------------------------
(* Pydantic models: validation with defaults *)

\* Optional[str] = None
OptionalStr(v) == IF v = Missing THEN None ELSE v

\* Threshold: amount Optional[float] = None
Threshold == [amount |-> << >>]

Limit(raw) ==
  [idNatures |-> raw.idNatures,
   type |-> OptionalStr(raw.type),
   period |-> OptionalStr(raw.period),
   currencyCode |-> OptionalStr(raw.currencyCode),
   thresholds |-> raw.thresholds]

Allowance(raw) ==
  [idNatures |-> raw.idNatures,
   currencyCode |-> OptionalStr(raw.currencyCode),
   thresholds |-> raw.thresholds]

Profile(raw) ==
  [id |-> raw.id,
   multilingualName |-> raw.multilingualName,
   idNatures |-> raw.idNatures,
   limits |-> [i \in 1..Len(raw.limits) |-> Limit(raw.limits[i])],
   allowances |-> [i \in 1..Len(raw.allowances) |-> Allowance(raw.allowances[i])]]

\* Nature: id is a required int
Nature(raw) == [id |-> raw.id[1], multilingualName |-> raw.multilingualName]

Profile_name_fr(profile) ==
  LET name == DictGet(profile.multilingualName, FR_FR, None) IN
  IF Truthy(name) THEN name
  ELSE IF profile.id # << >> THEN "Profil sans nom (ID: " \o Str(profile.id[1]) \o ")"
  ELSE "Profil non identifie"

Nature_name_fr(nature) ==
  DictGet(nature.multilingualName, FR_FR, "ID " \o Str(nature.id))

\* a top-level list field of CleemyData: List[...] = Field(default_factory=list)
ListFieldOk(f) == f.tag \in {"missing", "list"}
ListField(f) == IF f.tag = "missing" THEN << >> ELSE f.items

\* CleemyData.model_validate(raw_data)
CleemyData(raw_data) ==
  IF raw_data.top # "object" THEN Raise("ValidationError")
  ELSE IF ~ListFieldOk(raw_data.profiles) \/ ~ListFieldOk(raw_data.natures)
    THEN Raise("ValidationError")
  ELSE LET ps == ListField(raw_data.profiles)
           ns == ListField(raw_data.natures)
       IN IF \E i \in 1..Len(ns) : ns[i].id = << >>
            THEN Raise("ValidationError")
          ELSE Ok([profiles |-> [i \in 1..Len(ps) |-> Profile(ps[i])],
                   natures |-> [i \in 1..Len(ns) |-> Nature(ns[i])]])

\* json.load(uploaded_file)
json_load(content) ==
  IF content.syntax = "invalid" THEN Raise("JSONDecodeError") ELSE Ok(content.value)

-----------------------------------------------------------------------------
(* Lookup builder and flattener *)

\* {n.id: n.name_fr for n in data.natures}: a later nature of the same id wins
NatureLookup(data) ==
  LET ns == data.natures
      last(id) == CHOOSE i \in DOMAIN ns :
                    ns[i].id = id /\ \A j \in DOMAIN ns : ns[j].id = id => j <= i
  IN [id \in {ns[i].id : i \in DOMAIN ns} |-> Nature_name_fr(ns[last(id)])]

\* pd.DataFrame(list of dicts): an empty list gives a frame without columns
DataFrame(records, cols) ==
  [columns |-> IF records = << >> THEN << >> ELSE cols, rows |-> records]

HasColumn(df, col) == \E i \in DOMAIN df.columns : df.columns[i] = col

RECURSIVE SortedSeq(_)
\* sorted(set): the elements of a set of ints in ascending order
SortedSeq(S) ==
  IF S = {} THEN << >>
  ELSE LET m == CHOOSE x \in S : \A y \in S : x <= y IN <<m>> \o SortedSeq(S \ {m})

\* the rows as `for id_nature in set(profile.idNatures)` would give them
ProfileNatureRows_over_set(profile, nature_lookup) ==
  LET ids == SortedSeq({profile.idNatures[k] : k \in DOMAIN profile.idNatures}) IN
  [k \in 1..Len(ids) |->
     ("Profil" :> Profile_name_fr(profile))
       @@ ("ID Nature" :> ids[k])
       @@ ("Nom de la nature" :> DictGet(nature_lookup, ids[k], "# Inconnu"))]

ProfileNatureRows(profile, nature_lookup) ==
  [k \in 1..Len(profile.idNatures) |->
     ("Profil" :> Profile_name_fr(profile))
       @@ ("ID Nature" :> profile.idNatures[k])
       @@ ("Nom de la nature" :> DictGet(nature_lookup, profile.idNatures[k], "# Inconnu"))]

_create_profile_nature_df(data, nature_lookup) ==
  DataFrame(
    Concat([p \in 1..Len(data.profiles) |->
              ProfileNatureRows(data.profiles[p], nature_lookup)]),
    <<"Profil", "ID Nature", "Nom de la nature">>)

\* the names as `nature_lookup.get(nid)` would give them: None for an unknown id
NatureNames_without_default(rule, nature_lookup) ==
  [k \in 1..Len(rule.idNatures) |-> DictGet(nature_lookup, rule.idNatures[k], None)]

\* [nature_lookup.get(nid, f"ID {nid}") for nid in rule.idNatures]
NatureNames(rule, nature_lookup) ==
  [k \in 1..Len(rule.idNatures) |->
     DictGet(nature_lookup, rule.idNatures[k], "ID " \o Str(rule.idNatures[k]))]

\* rule.thresholds[0] if rule.thresholds else Threshold()
FirstThreshold(rule) == IF rule.thresholds # << >> THEN rule.thresholds[1] ELSE Threshold

\* getattr(limit, 'type', 'N/A'): a Limit always has the attribute, so the
\* default is never taken and a None type comes back as None
getattr_type(limit) == limit.type

LimitRow(profile_name, limit, nature_lookup) ==
  ("Profil" :> profile_name) @@ ("Type de Regle" :> "Limite")
    @@ ("Natures Concernees" :> Join(", ", FilterNone(NatureNames(limit, nature_lookup))))
    @@ ("Type de Plafond" :> Capitalize(getattr_type(limit)))
    @@ ("Montant" :> FirstThreshold(limit).amount)
    @@ ("Devise" :> limit.currencyCode)
    @@ ("Periode" :> DictGet(PERIOD_TRANSLATION, limit.period, limit.period))

AllowanceRow(profile_name, allowance, nature_lookup) ==
  ("Profil" :> profile_name) @@ ("Type de Regle" :> "Indemnite")
    @@ ("Natures Concernees" :> Join(", ", FilterNone(NatureNames(allowance, nature_lookup))))
    @@ ("Type de Plafond" :> "Forfait")
    @@ ("Montant" :> FirstThreshold(allowance).amount)
    @@ ("Devise" :> allowance.currencyCode)
    @@ ("Periode" :> "N/A")

ProfileRuleRows(profile, nature_lookup) ==
  [l \in 1..Len(profile.limits) |->
     LimitRow(Profile_name_fr(profile), profile.limits[l], nature_lookup)]
  \o [a \in 1..Len(profile.allowances) |->
     AllowanceRow(Profile_name_fr(profile), profile.allowances[a], nature_lookup)]

\* None.capitalize() raises AttributeError at the first Limit whose type is None
_create_limits_df(data, nature_lookup) ==
  IF \E p \in DOMAIN data.profiles : \E l \in DOMAIN data.profiles[p].limits :
       getattr_type(data.profiles[p].limits[l]) = None
    THEN Raise("AttributeError")
  ELSE Ok(DataFrame(
            Concat([p \in 1..Len(data.profiles) |->
                      ProfileRuleRows(data.profiles[p], nature_lookup)]),
            <<"Profil", "Type de Regle", "Natures Concernees", "Type de Plafond",
              "Montant", "Devise", "Periode">>))

\* nature_map.setdefault(nature_id, {}).setdefault(name, {"limits": [], "allowances": []})
SetDefault(nature_map, nature_id, name) ==
  LET inner == DictGet(nature_map, nature_id, << >>)
      entry == DictGet(inner, name, [limits |-> << >>, allowances |-> << >>])
  IN (nature_id :> ((name :> entry) @@ inner)) @@ nature_map

AppendLimit(nature_map, nature_id, name, limit) ==
  [SetDefault(nature_map, nature_id, name) EXCEPT
     ![nature_id][name].limits = Append(@, limit)]

AppendAllowance(nature_map, nature_id, name, allowance) ==
  [SetDefault(nature_map, nature_id, name) EXCEPT
     ![nature_id][name].allowances = Append(@, allowance)]

RECURSIVE MapGrants(_, _, _)
MapGrants(nature_map, ids, name) ==
  IF ids = << >> THEN nature_map
  ELSE MapGrants(SetDefault(nature_map, Head(ids), name), Tail(ids), name)

RECURSIVE MapLimit(_, _, _, _)
MapLimit(nature_map, ids, name, limit) ==
  IF ids = << >> THEN nature_map
  ELSE MapLimit(AppendLimit(nature_map, Head(ids), name, limit), Tail(ids), name, limit)

RECURSIVE MapAllowance(_, _, _, _)
MapAllowance(nature_map, ids, name, allowance) ==
  IF ids = << >> THEN nature_map
  ELSE MapAllowance(AppendAllowance(nature_map, Head(ids), name, allowance),
                    Tail(ids), name, allowance)

RECURSIVE MapLimits(_, _, _)
MapLimits(nature_map, limits, name) ==
  IF limits = << >> THEN nature_map
  ELSE MapLimits(MapLimit(nature_map, Head(limits).idNatures, name, Head(limits)),
                 Tail(limits), name)

RECURSIVE MapAllowances(_, _, _)
MapAllowances(nature_map, allowances, name) ==
  IF allowances = << >> THEN nature_map
  ELSE MapAllowances(
         MapAllowance(nature_map, Head(allowances).idNatures, name, Head(allowances)),
         Tail(allowances), name)

\* one iteration of the loop over data.profiles
MapProfile(nature_map, profile) ==
  LET name == Profile_name_fr(profile) IN
  MapAllowances(
    MapLimits(MapGrants(nature_map, profile.idNatures, name), profile.limits, name),
    profile.allowances, name)

RECURSIVE MapProfiles(_, _)
MapProfiles(nature_map, profiles) ==
  IF profiles = << >> THEN nature_map
  ELSE MapProfiles(MapProfile(nature_map, Head(profiles)), Tail(profiles))

_create_nature_to_profiles_map(data) == MapProfiles(<< >>, data.profiles)

-----------------------------------------------------------------------------
(* Consistency auditor *)

find_orphan_nature_ids(df_profiles, nature_lookup) ==
  IF ~HasColumn(df_profiles, "ID Nature") THEN Raise("KeyError")
  ELSE Ok({df_profiles.rows[i]["ID Nature"] : i \in DOMAIN df_profiles.rows}
            \ DOMAIN nature_lookup)

\* threshold.amount is None or threshold.amount == 0
Degenerate(rule) ==
  LET amount == FirstThreshold(rule).amount IN amount = << >> \/ amount[1] = 0

RuleWarning(profile, kind, rule, nature_lookup) ==
  "**Profil '" \o Profile_name_fr(profile) \o "'** : " \o kind
    \o " avec montant nul ou non defini pour : *"
    \o Join(", ", NatureNames(rule, nature_lookup)) \o "*."

ProfileWarnings(profile, nature_lookup) ==
  LET lim == SelectSeq(profile.limits, Degenerate)
      alw == SelectSeq(profile.allowances, Degenerate)
  IN [l \in 1..Len(lim) |-> RuleWarning(profile, "Limite", lim[l], nature_lookup)]
     \o [a \in 1..Len(alw) |-> RuleWarning(profile, "Indemnite", alw[a], nature_lookup)]

\* ', '.join(nature_names) raises TypeError on a name that is None
JoinRaises(rule, nature_lookup) ==
  \E k \in DOMAIN rule.idNatures : NatureNames(rule, nature_lookup)[k] = None

audit_inconsistent_rules(data, nature_lookup) ==
  IF \E p \in DOMAIN data.profiles :
       \/ \E l \in DOMAIN data.profiles[p].limits :
            Degenerate(data.profiles[p].limits[l])
              /\ JoinRaises(data.profiles[p].limits[l], nature_lookup)
       \/ \E a \in DOMAIN data.profiles[p].allowances :
            Degenerate(data.profiles[p].allowances[a])
              /\ JoinRaises(data.profiles[p].allowances[a], nature_lookup)
    THEN Raise("TypeError")
  ELSE Ok(Concat([p \in 1..Len(data.profiles) |->
                    ProfileWarnings(data.profiles[p], nature_lookup)]))

-----------------------------------------------------------------------------
(* load_and_process_data, without its cache *)

\* the body of the try block once the document is validated
Process(data) ==
  LET nature_lookup == NatureLookup(data)
      df_profiles == _create_profile_nature_df(data, nature_lookup)
      df_limits == _create_limits_df(data, nature_lookup)
  IN IF Raised(df_limits) THEN [error |-> "Traceback: " \o df_limits.exc]
     ELSE [pydantic_data |-> data,
           nature_lookup |-> nature_lookup,
           df_profiles |-> df_profiles,
           df_limits |-> df_limits.val,
           nature_to_profiles_map |-> _create_nature_to_profiles_map(data),
           error |-> None]

\* the loader as it would be if a validation error fell back to an empty document
load_and_process_data_lenient(content) ==
  LET raw_data == json_load(content) IN
  IF Raised(raw_data) THEN [error |-> "Traceback: " \o raw_data.exc]
  ELSE LET data == CleemyData(raw_data.val) IN
       IF Raised(data) THEN Process([profiles |-> << >>, natures |-> << >>])
       ELSE Process(data.val)

load_and_process_data(content) ==
  LET raw_data == json_load(content) IN
  IF Raised(raw_data) THEN [error |-> "Traceback: " \o raw_data.exc]
  ELSE LET data == CleemyData(raw_data.val) IN
       IF Raised(data) THEN [error |-> data.exc]
       ELSE Process(data.val)

-----------------------------------------------------------------------------
(* Text: str.lower, str.split, and the regular expressions of Series.str.contains *)

Char(s, i) == SubSeq(s, i, i)

ascii_uppercase == "ABCDEFGHIJKLMNOPQRSTUVWXYZ"
ascii_lowercase == "abcdefghijklmnopqrstuvwxyz"

\* the lower-case letter of each upper-case letter
Lowered ==
  [c \in {Char(ascii_uppercase, i) : i \in 1..26} |->
     Char(ascii_lowercase, CHOOSE i \in 1..26 : Char(ascii_uppercase, i) = c)]

LowerChar(c) == IF c \in DOMAIN Lowered THEN Lowered[c] ELSE c

RECURSIVE lower(_)
\* str.lower()
lower(s) == IF s = "" THEN "" ELSE LowerChar(Head(s)) \o lower(Tail(s))

RECURSIVE SplitFrom(_, _)
\* the words of s after the pending word `word`
SplitFrom(s, word) ==
  LET done == IF word = "" THEN << >> ELSE <<word>> IN
  IF s = "" THEN done
  ELSE IF Head(s) = " " THEN done \o SplitFrom(Tail(s), "")
  ELSE SplitFrom(Tail(s), word \o Head(s))

\* str.split(): the maximal runs without whitespace
split(s) == SplitFrom(s, "")

\* re.compile(pattern) raises re.error on a group that is never closed. The
\* patterns of the model hold letters, digits, '.', '|' and '(' only.
re_error(pattern) == \E i \in 1..Len(pattern) : Char(pattern, i) = "("

RECURSIVE AlternativesFrom(_, _)
AlternativesFrom(pattern, alt) ==
  IF pattern = "" THEN <<alt>>
  ELSE IF Head(pattern) = "|" THEN <<alt>> \o AlternativesFrom(Tail(pattern), "")
  ELSE AlternativesFrom(Tail(pattern), alt \o Head(pattern))

\* the branches of a pattern a|b|c
Alternatives(pattern) == AlternativesFrom(pattern, "")

\* the branch matches the text at position i: '.' matches any character
MatchesAt(alt, text, i) ==
  /\ i + Len(alt) - 1 <= Len(text)
  /\ \A k \in 1..Len(alt) : Char(alt, k) = "." \/ Char(alt, k) = Char(text, i + k - 1)

\* re.search(pattern, text) is not None, which Series.str.contains(pattern) tests:
\* regex=True is its default
re_search(pattern, text) ==
  \E alts \in {Alternatives(pattern)} :
    \E a \in DOMAIN alts : \E i \in 1..(Len(text) + 1) : MatchesAt(alts[a], text, i)

-----------------------------------------------------------------------------
(* Tabular report renderer *)

\* the Montant column holds a float in some row: pandas then stores a missing
\* amount as NaN instead of None
HasFloat(df) == \E i \in DOMAIN df.rows : df.rows[i]["Montant"] # << >>

\* str(value) of a cell, as astype(str) and str(row[col]) give it
str_cell(df, col, value) ==
  IF col = "ID Nature" THEN Str(value)
  ELSE IF col = "Montant"
    THEN IF value # << >> THEN Str(value[1]) \o ".0"
         ELSE IF HasFloat(df) THEN "nan" ELSE "None"
  ELSE IF value = None THEN "None"
  ELSE value

RECURSIVE _safe_encode(_)
\* str(text).encode('latin-1', 'replace').decode('latin-1'): every character
\* that latin-1 lacks becomes '?'
_safe_encode(text) ==
  IF \A i \in 1..Len(text) : Char(text, i) # "#" THEN text
  ELSE (IF Head(text) = "#" THEN "?" ELSE Head(text)) \o _safe_encode(Tail(text))

\* FPDF's A4 page and default margin, in mm
PageWidth(orientation) == IF orientation = "L" THEN 297 ELSE 210
l_margin == 10

\* PDF.chapter_body(df): the table it draws; a width is the fraction num/den
chapter_body(df) ==
  IF df.rows = << >> \/ df.columns = << >> THEN [empty |-> TRUE]
  ELSE
    LET num_columns == Len(df.columns)
        orientation == IF num_columns > 6 THEN "L" ELSE "P"
        effective_page_width == PageWidth(orientation) - 2 * l_margin
        col_width == [num |-> effective_page_width, den |-> num_columns]
    IN [empty |-> FALSE,
        orientation |-> orientation,
        col_widths |-> [c \in 1..num_columns |-> col_width],
        header |-> [c \in 1..num_columns |-> _safe_encode(df.columns[c])],
        rows |-> [i \in 1..Len(df.rows) |->
                    [c \in 1..num_columns |->
                       _safe_encode(str_cell(df, df.columns[c], df.rows[i][df.columns[c]]))]]]

\* create_pdf_report(): the two tables in full, then the orphan page
create_pdf_report(processed_data) ==
  LET found == find_orphan_nature_ids(processed_data.df_profiles,
                                      processed_data.nature_lookup)
  IN IF Raised(found) THEN Raise(found.exc)
     ELSE Ok(<<[title |-> "Vue d'ensemble des associations Profils/Natures",
                body |-> chapter_body(processed_data.df_profiles)],
               [title |-> "Analyse comparative des Limites et Indemnites",
                body |-> chapter_body(processed_data.df_limits)]>>
             \o IF found.val # {}
                  THEN <<[title |-> "Incoherences detectees (natures non trouvees)",
                          body |-> [empty |-> FALSE, ids |-> SortedSeq(found.val)]]>>
                ELSE << >>)

\* a cell as to_csv writes it: na_rep is the empty string
csv_cell(df, col, value) ==
  IF col = "ID Nature" THEN Str(value)
  ELSE IF col = "Montant" THEN (IF value # << >> THEN Str(value[1]) \o ".0" ELSE "")
  ELSE IF value = None THEN ""
  ELSE value

\* csv.QUOTE_MINIMAL: a field holding the delimiter is quoted
csv_field(text) ==
  IF \E i \in 1..Len(text) : Char(text, i) = "," THEN "\"" \o text \o "\"" ELSE text

\* df.to_csv(index=False): the header line, then one line per row
to_csv(df) ==
  <<Join(",", [c \in 1..Len(df.columns) |-> csv_field(df.columns[c])])>>
  \o [i \in 1..Len(df.rows) |->
        Join(",", [c \in 1..Len(df.columns) |->
                     csv_field(csv_cell(df, df.columns[c], df.rows[i][df.columns[c]]))])]

\* df.to_excel(writer, index=False, sheet_name=...): typed cells in column order
to_excel(df, sheet_name) ==
  [sheet_name |-> sheet_name,
   header |-> df.columns,
   rows |-> [i \in 1..Len(df.rows) |->
               [c \in 1..Len(df.columns) |-> df.rows[i][df.columns[c]]]]]

-----------------------------------------------------------------------------
(* The overview tab *)

\* display_df.astype(str).apply(' '.join, axis=1).str.lower(), for one row
search_space(df, row) ==
  lower(Join(" ", [c \in 1..Len(df.columns) |-> str_cell(df, df.columns[c], row[df.columns[c]])]))

\* the export buttons as they would be if the sheet followed the caption
\* ("le PDF et l'Excel sont complets")
OverviewExports_complete(display_df, processed_data) ==
  [csv |-> to_csv(display_df),
   pdf |-> create_pdf_report(processed_data),
   xlsx |-> <<to_excel(processed_data.df_profiles, "Vue d'ensemble (filtree)"),
              to_excel(processed_data.df_limits, "Toutes les regles")>>]

\* the data of the three download buttons of the overview, which the tab offers
\* under a table that has rows
OverviewExports(display_df, processed_data) ==
  [csv |-> to_csv(display_df),
   pdf |-> create_pdf_report(processed_data),
   xlsx |-> <<to_excel(display_df, "Vue d'ensemble (filtree)"),
              to_excel(processed_data.df_limits, "Toutes les regles")>>]

\* build_overview_ui() with the text input holding search_term: the table it
\* displays, and whether it offers the downloads of OverviewExports
build_overview_ui(processed_data, search_term) ==
  LET df_profiles == processed_data.df_profiles
      terms == split(lower(search_term))
      Kept(row) ==
        \E space \in {search_space(df_profiles, row)} :
          \A t \in DOMAIN terms : re_search(terms[t], space)
      display_df == IF search_term = "" THEN df_profiles
                    ELSE [columns |-> df_profiles.columns,
                          rows |-> SelectSeq(df_profiles.rows, Kept)]
  IN IF search_term # "" /\ df_profiles.columns = << >> THEN Raise("AttributeError")
     ELSE IF search_term # "" /\ \E t \in DOMAIN terms : re_error(terms[t])
       THEN Raise("re.error")
     ELSE IF display_df.rows = << >>
       THEN Ok([display_df |-> display_df, offered |-> FALSE])
     \* create_pdf_report() raises when its orphan scan does
     ELSE IF Raised(find_orphan_nature_ids(df_profiles, processed_data.nature_lookup))
       THEN Raise("KeyError")
     ELSE Ok([display_df |-> display_df, offered |-> TRUE])

-----------------------------------------------------------------------------
(* Bounded documents *)

MaxRefs == 2
MaxNatures == 2
MaxProfiles == 2
MaxRules == 2

NatureIds == {1, 2}

\* the sequences over S of length at most n
SeqsUpTo(S, n) == UNION {[1..k -> S] : k \in 0..n}

IdLists == SeqsUpTo(NatureIds, MaxRefs)

NatureNameDicts == {<< >>} \cup {FR_FR :> v : v \in {None, "", "Repas"}}

RawNatures == [id : {<<i>> : i \in NatureIds}, multilingualName : NatureNameDicts]

RawNatureLists == SeqsUpTo(RawNatures, MaxNatures)

\* the nature lists without a repeated or descending id
AscendingNatureLists ==
  {ns \in RawNatureLists : \A i, j \in DOMAIN ns : i < j => ns[i].id[1] < ns[j].id[1]}

Repas == [id |-> <<1>>, multilingualName |-> FR_FR :> "Repas"]

ThresholdLists == {<< >>} \cup {<<[amount |-> a]>> : a \in {<< >>, <<0>>, <<15>>}}

RuleIdLists == {<< >>, <<1>>, <<2, 1>>}

RawLimits ==
  [idNatures : RuleIdLists, type : {Missing, None, "absolute"},
   period : {"Day"}, currencyCode : {"EUR"}, thresholds : ThresholdLists]

RawAllowances ==
  [idNatures : RuleIdLists, currencyCode : {Missing}, thresholds : ThresholdLists]

\* profiles that only grant natures
GrantProfiles ==
  [id : {<< >>, <<10>>}, multilingualName : {<< >>, FR_FR :> "Cadre"},
   idNatures : IdLists, limits : {<< >>}, allowances : {<< >>}]

\* one unnamed profile carrying at most one limit and one allowance
RuleProfiles ==
  [id : {<<10>>}, multilingualName : {<< >>}, idNatures : {<< >>},
   limits : SeqsUpTo(RawLimits, 1), allowances : SeqsUpTo(RawAllowances, 1)]

IndexLimit ==
  [idNatures |-> <<1>>, type |-> "PERCENTAGE", period |-> Missing,
   currencyCode |-> Missing, thresholds |-> <<[amount |-> <<15>>]>>]

IndexAllowance ==
  [idNatures |-> <<1>>, currencyCode |-> "EUR", thresholds |-> <<[amount |-> <<0>>]>>]

\* profiles that may share a display name and mix grants and rules on nature 1
IndexProfiles ==
  [id : {<< >>}, multilingualName : {<< >>, FR_FR :> "Cadre"},
   idNatures : {<< >>, <<1>>},
   limits : SeqsUpTo({IndexLimit}, MaxRules), allowances : SeqsUpTo({IndexAllowance}, 1)]

OrphanLimit ==
  [idNatures |-> <<1, 2>>, type |-> "absolute", period |-> "Month",
   currencyCode |-> "EUR", thresholds |-> <<[amount |-> <<15>>]>>]

OrphanAllowance ==
  [idNatures |-> <<2>>, currencyCode |-> "EUR", thresholds |-> <<[amount |-> <<15>>]>>]

\* one profile whose rules reference nature 2, granted or not
OrphanRuleProfiles ==
  [id : {<<10>>}, multilingualName : {FR_FR :> "Cadre"},
   idNatures : {<< >>, <<1>>, <<1, 2>>},
   limits : SeqsUpTo({OrphanLimit}, 1), allowances : SeqsUpTo({OrphanAllowance}, 1)]

JsonObject(profiles, natures) ==
  [syntax |-> "json",
   value |-> [top |-> "object", profiles |-> profiles, natures |-> natures]]

ListOf(items) == [tag |-> "list", items |-> items]

\* a top-level key: absent, present and not a list (null, a string, ...), or a list
TopLevelFields(lists) ==
  {[tag |-> "missing", items |-> << >>], [tag |-> "nonlist", items |-> << >>]}
    \cup {ListOf(l) : l \in lists}

InvalidJson == [syntax |-> "invalid", value |-> << >>]

JsonArray ==
  [syntax |-> "json",
   value |-> [top |-> "array", profiles |-> ListOf(<< >>), natures |-> ListOf(<< >>)]]

\* the profile lists that only grant natures
GrantProfileLists == SeqsUpTo(GrantProfiles, MaxProfiles)

\* the profile lists that may share a display name
IndexProfileLists == SeqsUpTo(IndexProfiles, MaxProfiles)

ShapeProfileFields == TopLevelFields(SeqsUpTo(GrantProfiles, 1))

\* a nature without its required id breaks the schema
ShapeNatureFields ==
  TopLevelFields(SeqsUpTo(RawNatures \cup {[id |-> << >>, multilingualName |-> << >>]}, 1))

\* the scenario of the specification: one orphan id, one limit
CadreDocument ==
  JsonObject(
    ListOf(<<[id |-> <<10>>, multilingualName |-> FR_FR :> "Cadre", idNatures |-> <<1, 2>>,
              limits |-> <<[idNatures |-> <<1>>, type |-> "absolute", period |-> "Day",
                            currencyCode |-> "EUR",
                            thresholds |-> <<[amount |-> <<15>>]>>]>>,
              allowances |-> << >>]>>),
    ListOf(<<Repas>>))

StagiaireDocument ==
  JsonObject(
    ListOf(<<[id |-> <<11>>, multilingualName |-> FR_FR :> "Stagiaire", idNatures |-> <<1>>,
              limits |-> << >>,
              allowances |-> <<[idNatures |-> <<1>>, currencyCode |-> "EUR",
                                thresholds |-> << >>]>>]>>),
    ListOf(<<Repas>>))

\* the files a user uploads in the session specification
SessionDocuments == {InvalidJson, JsonArray, CadreDocument, StagiaireDocument}

FileNames == {"Full.json", "export.json"}

SessionFiles == [name : FileNames, content : SessionDocuments]

-----------------------------------------------------------------------------
(* The session: main() reruns on every interaction *)

VARIABLES
  uploaded_file,         \* st.file_uploader's value: << >> (None) or <<file>>
  session_state,         \* st.session_state, a dict
  cache,                 \* the st.cache_data store of load_and_process_data
  bytesio_hash_applies,  \* whether Streamlit keys the BytesIO hash_func to the argument
  orphans,               \* outcome of find_orphan_nature_ids in the last run
  inconsistencies,       \* outcome of audit_inconsistent_rules in the last run
  tabs_rendered,         \* the six tabs were built in the last run
  search_term,           \* the value of the overview's st.text_input
  overview               \* outcome of build_overview_ui in the last run

vars == <<uploaded_file, session_state, cache, bytesio_hash_applies,
          orphans, inconsistencies, tabs_rendered, search_term, overview>>

NotRun == [run |-> FALSE, exc |-> None]
Outcome(r) == [run |-> TRUE] @@ r

\* the key st.cache_data derives from the argument
CacheKey(file) == IF bytesio_hash_applies THEN << >> ELSE <<file>>

\* @st.cache_data(hash_funcs={BytesIO: lambda _: None}) load_and_process_data
CachedLoad(file) ==
  IF CacheKey(file) \in DOMAIN cache THEN cache[CacheKey(file)]
  ELSE load_and_process_data(file.content)

\* the run does not reach the tabs: the text input is not drawn and Streamlit
\* drops its value
NoTabs ==
  /\ tabs_rendered' = FALSE
  /\ search_term' = ""
  /\ overview' = NotRun

\* the tabs of main(): the overview is built first with the text input holding
\* `term`; an exception in it ends the run before the other tabs
Tabs(processed_data, term) ==
  \E view \in {Outcome(build_overview_ui(processed_data, term))} :
    /\ overview' = view
    /\ search_term' = term
    /\ tabs_rendered' = ~Raised(view)

\* the body of main() under `if processed_data and processed_data.get("error") is None`:
\* the orphan scan, then the rule audit, then the tabs; an exception ends the run
Audits(processed_data, term) ==
  IF processed_data.error # None
    THEN /\ orphans' = NotRun
         /\ inconsistencies' = NotRun
         /\ NoTabs
  ELSE
    \E orph \in {Outcome(find_orphan_nature_ids(processed_data.df_profiles,
                                                processed_data.nature_lookup))} :
      /\ orphans' = orph
      /\ IF Raised(orph)
           THEN /\ inconsistencies' = NotRun
                /\ NoTabs
         ELSE
           \E inc \in {Outcome(audit_inconsistent_rules(processed_data.pydantic_data,
                                                        processed_data.nature_lookup))} :
             /\ inconsistencies' = inc
             /\ IF Raised(inc) THEN NoTabs ELSE Tabs(processed_data, term)

\* main(): one run of the script with the uploader holding `upload` and the
\* text input of the overview holding `term`
main(upload, term) ==
  IF upload = << >>
    THEN /\ UNCHANGED <<session_state, cache>>
         /\ orphans' = NotRun
         /\ inconsistencies' = NotRun
         /\ NoTabs
  ELSE
    LET file == upload[1]
        reload == \/ "processed_data" \notin DOMAIN session_state
                  \/ DictGet(session_state, "uploaded_filename", None) # file.name
    IN \E processed_data \in {IF reload THEN CachedLoad(file)
                              ELSE session_state["processed_data"]} :
         /\ session_state' =
              IF reload THEN ("processed_data" :> processed_data)
                               @@ ("uploaded_filename" :> file.name)
              ELSE session_state
         /\ cache' = IF reload /\ CacheKey(file) \notin DOMAIN cache
                       THEN (CacheKey(file) :> processed_data) @@ cache
                     ELSE cache
         /\ Audits(processed_data, term)

\* the script reruns with the file the widget already holds
Rerun ==
  /\ main(uploaded_file, search_term)
  /\ UNCHANGED <<uploaded_file, bytesio_hash_applies>>

\* the user drops a file into the uploader, which reruns the script
Upload(file) ==
  /\ uploaded_file # <<file>>
  /\ uploaded_file' = <<file>>
  /\ main(<<file>>, search_term)
  /\ UNCHANGED bytesio_hash_applies

\* the user clears the uploader, which reruns the script
RemoveFile ==
  /\ uploaded_file # << >>
  /\ uploaded_file' = << >>
  /\ main(<< >>, search_term)
  /\ UNCHANGED bytesio_hash_applies

\* the texts a user types into the search box: words, and the characters that
\* a regular expression reads as operators
SearchTerms == {"", "Repas", "cadre 1", "zz", "r.p", "(", "|"}

\* the user types into the text input of the overview, which reruns the script
Search(term) ==
  /\ overview.run
  /\ term # search_term
  /\ main(uploaded_file, term)
  /\ UNCHANGED <<uploaded_file, bytesio_hash_applies>>

Init ==
  /\ uploaded_file = << >>
  /\ session_state = << >>
  /\ cache = << >>
  /\ bytesio_hash_applies \in BOOLEAN
  /\ orphans = NotRun
  /\ inconsistencies = NotRun
  /\ tabs_rendered = FALSE
  /\ search_term = ""
  /\ overview = NotRun

Next ==
  \/ \E file \in SessionFiles : Upload(file)
  \/ Rerun
  \/ RemoveFile
  \/ \E term \in SearchTerms : Search(term)

Spec == Init /\ [][Next]_vars

\* one uploaded document in a fresh session
FreshSession ==
  /\ session_state = << >>
  /\ cache = << >>
  /\ bytesio_hash_applies \in BOOLEAN
  /\ orphans = NotRun
  /\ inconsistencies = NotRun
  /\ tabs_rendered = FALSE
  /\ search_term = ""
  /\ overview = NotRun

Uploaded(content) == uploaded_file = <<[name |-> "Full.json", content |-> content]>>

\* several granting profiles over the one nature Repas
InitGrants == \E ps \in GrantProfileLists : Uploaded(JsonObject(ListOf(ps), ListOf(<<Repas>>)))

\* at most one granting profile over every list of natures
InitNatures ==
  \E ps \in SeqsUpTo(GrantProfiles, 1), ns \in RawNatureLists :
    Uploaded(JsonObject(ListOf(ps), ListOf(ns)))

\* one profile with rules over the ascending lists of natures
InitRules ==
  \E p \in RuleProfiles, ns \in AscendingNatureLists :
    Uploaded(JsonObject(ListOf(<<p>>), ListOf(ns)))

\* several profiles with grants and rules on Repas
InitIndex == \E ps \in IndexProfileLists : Uploaded(JsonObject(ListOf(ps), ListOf(<<Repas>>)))

\* documents whose text, top level or natures may break the schema
InitShapes ==
  \/ Uploaded(InvalidJson)
  \/ Uploaded(JsonArray)
  \/ \E ps \in ShapeProfileFields, ns \in ShapeNatureFields : Uploaded(JsonObject(ps, ns))

\* one profile with rules on nature 2 over the natures Repas, or none
InitOrphans ==
  \E p \in OrphanRuleProfiles, ns \in {<< >>, <<Repas>>} :
    Uploaded(JsonObject(ListOf(<<p>>), ListOf(ns)))

InitDoc ==
  /\ InitGrants \/ InitNatures \/ InitRules \/ InitIndex \/ InitShapes \/ InitOrphans
  /\ FreshSession

NextDoc == Rerun

SpecDoc == InitDoc /\ [][NextDoc]_vars

-----------------------------------------------------------------------------
(* Properties *)

\* main() has stored a snapshot for the session
Ran == "processed_data" \in DOMAIN session_state
Stored == session_state["processed_data"]
Succeeded == Ran /\ Stored.error = None
Content == uploaded_file[1].content

IsObject(content) == content.syntax = "json" /\ content.value.top = "object"

\* C1: the snapshot the session holds is the one derived from the content of the
\* file the uploader holds, whatever was uploaded before. It is stated here for
\* the cache keyed by the file's name and bytes, the case most favourable to it.
C1_SnapshotOfLatestUpload ==
  (uploaded_file # << >> /\ ~bytesio_hash_applies)
    => Ran /\ Stored = load_and_process_data(Content)

\* C2: when json.load or the validation of the uploaded file raises, the stored
\* result has a non-null error and no other key, and while the session holds a
\* result with an error neither audit nor any tab is run.
C2_FailedLoadHasNoViews ==
  Ran =>
    /\ (Raised(json_load(Content)) \/ Raised(CleemyData(json_load(Content).val)))
         => Stored.error # None
    /\ Stored.error # None
         => /\ DOMAIN Stored = {"error"}
            /\ ~orphans.run /\ ~inconsistencies.run /\ ~tabs_rendered

C2_Witness ==
  /\ Ran
  /\ ~Raised(json_load(Content))
  /\ Raised(CleemyData(json_load(Content).val))
  /\ Stored.error = "ValidationError"

LacksListKey(content) ==
  \/ content.value.profiles.tag # "list"
  \/ content.value.natures.tag # "list"

\* C3: a JSON object without a `profiles` or a `natures` list (key absent, or not
\* a list) is rejected with a validation error.
C3_MissingKeyIsRejected ==
  (Ran /\ IsObject(Content) /\ LacksListKey(Content)) => Stored.error = "ValidationError"

HasUntypedLimit(content) ==
  /\ content.value.profiles.tag = "list"
  /\ \E p \in DOMAIN content.value.profiles.items :
       \E l \in DOMAIN content.value.profiles.items[p].limits :
         content.value.profiles.items[p].limits[l].type \in {Missing, None}

\* the documents that CleemyData accepts
WellFormed(content) == ~Raised(json_load(content)) /\ ~Raised(CleemyData(content.value))

\* C4: a well-formed document with a Limit whose type is missing or null is
\* processed without error, and every such Limit has the cap kind "N/A" in the
\* rules table.
C4_UntypedLimitIsNA ==
  (Ran /\ WellFormed(Content) /\ HasUntypedLimit(Content)) =>
    /\ Stored.error = None
    /\ \E i \in DOMAIN Stored.df_limits.rows :
         Stored.df_limits.rows[i]["Type de Plafond"] = "N/A"

\* C5: every Nature and every Profile of an accepted document has a display name
\* that is a non-empty string.
C5_NamesAreNonEmpty ==
  (Ran /\ WellFormed(Content)) =>
    LET data == CleemyData(Content.value).val IN
    /\ \A i \in DOMAIN data.natures : Truthy(Nature_name_fr(data.natures[i]))
    /\ \A i \in DOMAIN data.profiles : Truthy(Profile_name_fr(data.profiles[i]))

RECURSIVE GrantOffset(_, _)
\* the number of table rows that the profiles before the p-th one contribute
GrantOffset(profiles, p) ==
  IF p = 1 THEN 0 ELSE GrantOffset(profiles, p - 1) + Len(profiles[p - 1].idNatures)

\* C6: the profile-nature table holds one row per profile and position of its
\* idNatures, in profile order and then list order, unsorted and with repeats;
\* the row names the profile, the id, and the lookup's name of the id, or the
\* unknown sentinel when the lookup has no such id.
C6_ProfileNatureRows ==
  Succeeded =>
    LET profiles == Stored.pydantic_data.profiles
        rows == Stored.df_profiles.rows
        lookup == Stored.nature_lookup
    IN /\ Len(rows) = GrantOffset(profiles, Len(profiles) + 1)
       /\ \A p \in DOMAIN profiles : \A k \in DOMAIN profiles[p].idNatures :
            LET row == rows[GrantOffset(profiles, p) + k]
                id == profiles[p].idNatures[k]
            IN /\ row["Profil"] = Profile_name_fr(profiles[p])
               /\ row["ID Nature"] = id
               /\ row["Nom de la nature"] =
                    IF id \in DOMAIN lookup THEN lookup[id] ELSE "# Inconnu"

C6_Witness ==
  /\ Succeeded
  /\ Len(Stored.pydantic_data.profiles) = 2
  /\ Stored.pydantic_data.profiles[1].idNatures = <<2, 1>>
  /\ Stored.pydantic_data.profiles[2].idNatures = <<1, 1>>
  /\ DOMAIN Stored.nature_lookup = {1}
  /\ Len(Stored.df_profiles.rows) = 4
  /\ Stored.df_profiles.rows[1]["Nom de la nature"] = "# Inconnu"

RECURSIVE RuleOffset(_, _)
\* the number of rule rows that the profiles before the p-th one contribute
RuleOffset(profiles, p) ==
  IF p = 1 THEN 0
  ELSE RuleOffset(profiles, p - 1)
         + Len(profiles[p - 1].limits) + Len(profiles[p - 1].allowances)

\* the rows of the rules table are the limits, then the allowances, of each
\* profile in turn, and Cell(rule) is the concerned-natures cell of each
RuleRows(Cell(_)) ==
  LET profiles == Stored.pydantic_data.profiles
      rows == Stored.df_limits.rows
  IN /\ Len(rows) = RuleOffset(profiles, Len(profiles) + 1)
     /\ \A p \in DOMAIN profiles :
          /\ \A l \in DOMAIN profiles[p].limits :
               LET row == rows[RuleOffset(profiles, p) + l] IN
               /\ row["Profil"] = Profile_name_fr(profiles[p])
               /\ row["Type de Regle"] = "Limite"
               /\ row["Natures Concernees"] = Cell(profiles[p].limits[l])
          /\ \A a \in DOMAIN profiles[p].allowances :
               LET row == rows[RuleOffset(profiles, p) + Len(profiles[p].limits) + a] IN
               /\ row["Profil"] = Profile_name_fr(profiles[p])
               /\ row["Type de Regle"] = "Indemnite"
               /\ row["Natures Concernees"] = Cell(profiles[p].allowances[a])

\* the non-empty lookup names of the ids of the rule that the lookup holds
KnownNames(rule) ==
  LET Known(id) == id \in DOMAIN Stored.nature_lookup
      ids == SelectSeq(rule.idNatures, Known)
  IN FilterNone([k \in 1..Len(ids) |-> Stored.nature_lookup[ids[k]]])

\* the non-empty names of the ids of the rule, "ID <id>" for an id the lookup lacks
NamesOrIds(rule) ==
  FilterNone([k \in 1..Len(rule.idNatures) |->
                IF rule.idNatures[k] \in DOMAIN Stored.nature_lookup
                  THEN Stored.nature_lookup[rule.idNatures[k]]
                ELSE "ID " \o Str(rule.idNatures[k])])

CommaJoinKnown(rule) == Join(", ", KnownNames(rule))
CommaJoinNamesOrIds(rule) == Join(", ", NamesOrIds(rule))

\* C7: the rules table has one row per Limit and per Allowance, and the
\* concerned-natures cell joins the lookup names of the rule's ids: an id that
\* the lookup lacks contributes nothing.
C7_UnknownIdsDropped == Succeeded => RuleRows(CommaJoinKnown)

\* C7, amended: the rules table has one row per Limit and per Allowance, and in
\* the concerned-natures cell an id that the lookup lacks contributes "ID <id>";
\* only null and empty lookup names are dropped from the join.
C7_UnknownIdsShownAsId == Succeeded => RuleRows(CommaJoinNamesOrIds)

C7_Witness ==
  /\ Succeeded
  /\ Len(Stored.df_limits.rows) = 2
  /\ Stored.pydantic_data.profiles[1].limits[1].idNatures = <<2, 1>>
  /\ Stored.df_limits.rows[1]["Natures Concernees"] = "ID 2, Repas"
  /\ Stored.df_limits.rows[2]["Type de Regle"] = "Indemnite"

\* some Limit or Allowance of the profile has the id among its idNatures
HasRuleOn(profile, id) ==
  \/ \E l \in DOMAIN profile.limits :
       \E k \in DOMAIN profile.limits[l].idNatures : profile.limits[l].idNatures[k] = id
  \/ \E a \in DOMAIN profile.allowances :
       \E k \in DOMAIN profile.allowances[a].idNatures :
         profile.allowances[a].idNatures[k] = id

Grants(profile, id) == \E k \in DOMAIN profile.idNatures : profile.idNatures[k] = id

\* C8: a profile that grants a nature without any rule of its own on it has,
\* under reverseIndex[nature][name of the profile], an entry whose limits and
\* allowances are both empty. (The claim's second half, no key for a profile
\* with neither grant nor rule, fails on the same documents.)
C8_ReverseIndexComplete ==
  Succeeded =>
    LET profiles == Stored.pydantic_data.profiles
        index == Stored.nature_to_profiles_map
    IN \A p \in DOMAIN profiles : \A id \in NatureIds :
         (Grants(profiles[p], id) /\ ~HasRuleOn(profiles[p], id))
           => /\ id \in DOMAIN index
              /\ Profile_name_fr(profiles[p]) \in DOMAIN index[id]
              /\ index[id][Profile_name_fr(profiles[p])]
                   = [limits |-> << >>, allowances |-> << >>]

\* C9: the orphan scan returns the ids of the profile-nature table that the
\* lookup lacks.
C9_OrphansAreSetDifference ==
  Succeeded =>
    /\ orphans.run /\ ~Raised(orphans)
    /\ orphans.val =
         {Stored.df_profiles.rows[i]["ID Nature"] : i \in DOMAIN Stored.df_profiles.rows}
           \ DOMAIN Stored.nature_lookup

\* C10: on a processed document neither audit raises, and the orphan scan of a
\* table without rows returns the empty set.
C10_AuditsNeverFail ==
  Succeeded =>
    /\ orphans.run /\ ~Raised(orphans)
    /\ inconsistencies.run /\ ~Raised(inconsistencies)
    /\ Stored.df_profiles.rows = << >> => orphans.val = {}

\* the rule has no threshold, or a first threshold whose amount is null or zero
NullOrZeroAmount(rule) ==
  \/ rule.thresholds = << >>
  \/ rule.thresholds[1].amount \in {<< >>, <<0>>}

\* the limits, then the allowances, of the profile with such an amount
FlaggedRules(profile) ==
  LET lim == SelectSeq(profile.limits, NullOrZeroAmount)
      alw == SelectSeq(profile.allowances, NullOrZeroAmount)
  IN [l \in 1..Len(lim) |-> [profile |-> profile, kind |-> "Limite", rule |-> lim[l]]]
     \o [a \in 1..Len(alw) |-> [profile |-> profile, kind |-> "Indemnite", rule |-> alw[a]]]

\* C11: on a processed document the rule audit returns one warning per Limit and
\* per Allowance whose amount is null or zero and none for another rule, in
\* profile order and limits before allowances within a profile; the warning
\* names the profile, the kind of rule and the concerned natures.
C11_OneWarningPerDegenerateRule ==
  Succeeded =>
    LET data == Stored.pydantic_data
        flagged == Concat([p \in 1..Len(data.profiles) |-> FlaggedRules(data.profiles[p])])
        warnings == audit_inconsistent_rules(data, Stored.nature_lookup)
    IN /\ ~Raised(warnings)
       /\ Len(warnings.val) = Len(flagged)
       /\ \A k \in 1..Len(flagged) :
            warnings.val[k] = RuleWarning(flagged[k].profile, flagged[k].kind,
                                          flagged[k].rule, Stored.nature_lookup)

\* C12: when the profile-nature table has rows, the orphan scan reports every
\* nature id that some Limit or Allowance references and the natures list
\* lacks, whether or not a profile grants the id. (On a table without rows the
\* scan raises, see C10.)
C12_RuleOrphansReported ==
  (Succeeded /\ Stored.df_profiles.rows # << >>) =>
    LET data == Stored.pydantic_data
        defined == {data.natures[i].id : i \in DOMAIN data.natures}
    IN /\ orphans.run /\ ~Raised(orphans)
       /\ \A p \in DOMAIN data.profiles : \A id \in NatureIds \ defined :
            HasRuleOn(data.profiles[p], id) => id \in orphans.val

\* the overview of the last run was built without an exception
Shown == overview.run /\ ~Raised(overview)

\* the term occurs in the text as a literal substring
Occurs(term, text) ==
  \E i \in 1..(Len(text) - Len(term) + 1) : SubSeq(text, i, i + Len(term) - 1) = term

\* the term occurs, whatever the case, in some stringified cell of the row
RowHas(df, row, term) ==
  \E c \in DOMAIN df.columns :
    Occurs(lower(term), lower(str_cell(df, df.columns[c], row[df.columns[c]])))

\* C13: with a search text, the overview shows exactly the rows of the
\* profile-nature table in which every whitespace-separated term of the text
\* occurs, case-insensitively, as a literal substring of a stringified cell,
\* whatever characters the terms hold.
C13_SearchIsLiteralAnd ==
  (overview.run /\ search_term # "") =>
    LET df == Stored.df_profiles
        terms == split(search_term)
        Kept(row) == \A t \in DOMAIN terms : RowHas(df, row, terms[t])
    IN /\ ~Raised(overview)
       /\ overview.val.display_df.rows = SelectSeq(df.rows, Kept)

\* the overview of the last run offers its three downloads
Offered == Shown /\ overview.val.offered

\* the rows the overview displays, and the first table of each download
Displayed == overview.val.display_df.rows
Exports == OverviewExports(overview.val.display_df, Stored)
CsvLines == Exports.csv
PdfTable == Exports.pdf.val[1].body
Sheet == Exports.xlsx[1]

\* the text b is the text a with some characters replaced by '?'
Substituted(a, b) ==
  /\ Len(a) = Len(b)
  /\ \A k \in 1..Len(a) : Char(b, k) = Char(a, k) \/ Char(b, k) = "?"

\* the CSV holds the header and one line per row, in order
CsvHolds(rows) ==
  LET df == Stored.df_profiles IN
  /\ Len(CsvLines) = Len(rows) + 1
  /\ \A i \in DOMAIN rows :
       CsvLines[i + 1] =
         Join(",", [c \in 1..Len(df.columns) |->
                      csv_field(csv_cell(df, df.columns[c], rows[i][df.columns[c]]))])

\* the first sheet holds one row per row, in order, with the same cells
SheetHolds(rows) ==
  LET df == Stored.df_profiles IN
  /\ Len(Sheet.rows) = Len(rows)
  /\ \A i \in DOMAIN rows : \A c \in DOMAIN df.columns :
       Sheet.rows[i][c] = rows[i][df.columns[c]]

\* the first table of the PDF holds one row per row, in order, with the same
\* cell texts up to substituted characters
PdfHolds(rows) ==
  LET df == Stored.df_profiles IN
  /\ ~PdfTable.empty
  /\ Len(PdfTable.rows) = Len(rows)
  /\ \A i \in DOMAIN rows : \A c \in DOMAIN df.columns :
       Substituted(str_cell(df, df.columns[c], rows[i][df.columns[c]]), PdfTable.rows[i][c])

ContentLength(table, c) ==
  LET lens == {Len(table.header[c])} \cup {Len(table.rows[i][c]) : i \in DOMAIN table.rows}
  IN CHOOSE m \in lens : \A n \in lens : n <= m

RECURSIVE SumNum(_)
\* the sum of the numerators of a sequence of widths
SumNum(widths) == IF widths = << >> THEN 0 ELSE Head(widths).num + SumNum(Tail(widths))

\* the widths, fractions over one denominator, add up to the usable page width
FillsPage(table) ==
  \E d \in {table.col_widths[1].den} :
    /\ \A c \in DOMAIN table.col_widths : table.col_widths[c].den = d
    /\ SumNum(table.col_widths) = (PageWidth(table.orientation) - 2 * l_margin) * d

\* width_i * L_j = width_j * L_i for every two columns
Proportional(table) ==
  \A i, j \in DOMAIN table.col_widths :
    table.col_widths[i].num * table.col_widths[j].den * ContentLength(table, j)
      = table.col_widths[j].num * table.col_widths[i].den * ContentLength(table, i)

\* C15: in each table of the PDF the column widths add up to the usable page
\* width and are proportional to the content lengths of their columns.
C15_WidthsProportional ==
  Offered =>
    \A p \in 1..2 :
      ~Exports.pdf.val[p].body.empty =>
        FillsPage(Exports.pdf.val[p].body) /\ Proportional(Exports.pdf.val[p].body)

\* the profile-nature table has a row for the name and the id
HasRow(name, id) ==
  \E i \in DOMAIN Stored.df_profiles.rows :
    /\ Stored.df_profiles.rows[i]["Profil"] = name
    /\ Stored.df_profiles.rows[i]["ID Nature"] = id

\* the references to the id among the idNatures of the rules
Refs(rules, id) ==
  {<<r, k>> \in (DOMAIN rules) \X (1..MaxRefs) :
     k \in DOMAIN rules[r].idNatures /\ rules[r].idNatures[k] = id}

\* the entry holds the rules of this one profile on the id and nothing else
EntryOf(entry, profile, id) ==
  /\ Len(entry.limits) = Cardinality(Refs(profile.limits, id))
  /\ Len(entry.allowances) = Cardinality(Refs(profile.allowances, id))
  /\ \A k \in DOMAIN entry.limits :
       \E l \in DOMAIN profile.limits : entry.limits[k] = profile.limits[l]
  /\ \A k \in DOMAIN entry.allowances :
       \E a \in DOMAIN profile.allowances : entry.allowances[k] = profile.allowances[a]

\* reverseIndex[N] has a key X exactly when a profile named X has a row (X, N)
\* in the profile-nature table or a rule on N
KeysMatchViews ==
  LET profiles == Stored.pydantic_data.profiles
      index == Stored.nature_to_profiles_map
      names == {Profile_name_fr(profiles[p]) : p \in DOMAIN profiles}
                 \cup UNION {DOMAIN index[id] : id \in DOMAIN index}
  IN \A id \in NatureIds \cup DOMAIN index : \A name \in names :
       (id \in DOMAIN index /\ name \in DOMAIN index[id])
         <=> \/ HasRow(name, id)
             \/ \E p \in DOMAIN profiles :
                  Profile_name_fr(profiles[p]) = name /\ HasRuleOn(profiles[p], id)

\* C16: on a processed document the keys of the reverse index agree with the
\* profile-nature table and the rules, and every entry reverseIndex[N][X] holds
\* the rules of one single profile named X.
C16_ViewsAgreeAndNeverMerge ==
  Succeeded =>
    /\ KeysMatchViews
    /\ LET profiles == Stored.pydantic_data.profiles
           index == Stored.nature_to_profiles_map
       IN \A id \in DOMAIN index : \A name \in DOMAIN index[id] :
            \E p \in DOMAIN profiles :
              /\ Profile_name_fr(profiles[p]) = name
              /\ EntryOf(index[id][name], profiles[p], id)

====
